---- MODULE Spec2Model ----
(***************************************************************************)
(* Latency sweep: the orchestrator (run_sweep.py: main, wait_for_probes,   *)
(* collect_metrics, run_collection) and the analyzer (analyze.py:          *)
(* load_results) as state machines.                                        *)
(*                                                                         *)
(* Time is the integer wall clock `now` (seconds).  Only HTTP calls and    *)
(* sleeps take time: a call takes one of CallSecs seconds (at most its     *)
(* per-call timeout), a sleep takes its argument.                          *)
(* A JSON object is a function from its keys; a missing key is a key that  *)
(* is not in the DOMAIN, the empty object is the function with no keys.    *)
(***************************************************************************)
EXTENDS Integers, Sequences, FiniteSets, TLC

VARIABLES
    pc,               \* position of the orchestrator process in main
    args,             \* the parsed command line (argparse namespace)
    exit_code,        \* -1 while running, 0 normal end, 1 sys.exit(1), 2 uncaught exception
    now,              \* the wall clock, time.time()
    tf_calls,         \* run_terraform actions executed so far, in order
    probes,           \* main: the list parse_probe_endpoints returned
    timeout_sec,      \* wait_for_probes: parameter
    gate_start,       \* wait_for_probes: start
    all_healthy,      \* wait_for_probes: all_healthy
    gi,               \* wait_for_probes: index of the probe the for loop is at
    sweep,            \* history: the health outcomes of the current sweep, in order
    ready,            \* the value wait_for_probes returned ("none" before it returns)
    file,             \* the lines of <experiment_id>_results.jsonl on disk
    file0,            \* history: the lines of the file when run_collection opened it
    start_time,       \* run_collection: start_time
    end_time,         \* run_collection: end_time
    elapsed,          \* run_collection: elapsed of the current round
    collection_count, \* run_collection: collection_count
    ci,               \* run_collection: index of the probe the for loop is at
    attempts,         \* history: probe indices fetched in the current round, in order
    round_start,      \* history: the clock when the current round passed the while test
    fetch_ok,         \* history: number of fetches of this run that returned 2xx + JSON
    warmup_slept,     \* history: TRUE once time.sleep(config.warmup_sec) was called
    buffer,           \* run_collection: lines written to f and not yet flushed to disk
    returned,         \* main: the value run_collection returned (<<>> before it returns)
    log,              \* analyzer: the lines of the results file given to load_results
    line_num,         \* load_results: number of lines consumed so far
    metrics,          \* load_results: the dict key -> ConfigMetrics
    apc,              \* position of the analyzer process
    key_order,        \* the keys of the dict `metrics` in insertion order
    json_output,      \* analyze: TRUE when --json names an output file
    scored,           \* analyze: the list `scored` (the ranking once sorted)
    ranking_printed,  \* print_ranking: number of ranking entries printed
    comparison,       \* print_comparison: what statistical_comparison returned
    recommendation,   \* print_recommendation: what was printed
    exported,         \* export_json: the recommendation of the JSON document
    analyze_exit      \* exit status of the analyzer process, -1 while it has not ended

sweepVars == <<pc, args, exit_code, now, tf_calls, probes, timeout_sec, gate_start,
               all_healthy, gi, sweep, ready, file, file0, start_time, end_time,
               elapsed, collection_count, ci, attempts, round_start,
               fetch_ok, warmup_slept, buffer, returned>>

reportVars == <<json_output, scored, ranking_printed, comparison, recommendation,
                exported, analyze_exit>>

analyzeVars == <<log, line_num, metrics, apc, key_order, reportVars>>

vars == <<sweepVars, analyzeVars>>

\* ------------------------------------------------------------------ bounds
MaxProbes == 2
MaxTimeoutSec == 11
MaxDurationSec == 2
MaxLines == 3

\* ------------------------------------------------------- input sets
\* Seconds an HTTP call may take (at most its per-call timeout).
CallSecs == {0, 1}
\* --warmup and --poll-interval values.
WarmupSecs == {0, 1}
PollSecs == {1, 2}

\* ------------------------------------------------- program constants
\* wait_for_probes, line 128: time.sleep(10).
GateSleepSec == 10

\* ------------------------------------------------------------ JSON values
EmptyObj == [k \in {} |-> 0]

Get(obj, k, default) == IF k \in DOMAIN obj THEN obj[k] ELSE default

\* Python truthiness of a dict: a dict is falsy exactly when it has no key.
Truthy(obj) == DOMAIN obj # {}

\* ------------------------------------------------ probes and their answers
\* ProbeConfig (region, instance_family, instance_id) of the n-th endpoint.
ProbeConfig(n) ==
    [region |-> IF n % 2 = 1 THEN "eu-west-1" ELSE "eu-central-1",
     instance_family |-> IF n <= 2 THEN "c6i" ELSE "c7g",
     instance_id |-> n]

\* parse_probe_endpoints: one ProbeConfig per endpoint of the Terraform output.
parse_probe_endpoints(n) == [i \in 1..n |-> ProbeConfig(i)]

\* What a GET of health_url can end in: an HTTP status or a RequestException.
HealthOutcomes == {"200", "204", "503", "RequestException"}

\* The metrics payloads a probe answers with: the documented shape, and the
\* empty object (both sub-objects missing).
AggBusy == [count |-> 5, p50_us |-> 8000, p99_us |-> 10000, p999_us |-> 15000, cv |-> 5]
AggIdle == [count |-> 0, p50_us |-> 0, p99_us |-> 0, p999_us |-> 0, cv |-> 0]
CtrQuiet == [reconnects |-> 0, errors |-> 1, messages |-> 5]
CtrNoisy == [reconnects |-> 2, errors |-> 0, messages |-> 9]

ProbeBodies ==
    {[aggregate |-> AggBusy, counters |-> CtrQuiet], EmptyObj}

\* What a GET of metrics_url can end in: a transport error, a non-2xx status
\* (raise_for_status raises HTTPError), or 2xx with a JSON body.
MetricsOutcomes ==
    {[kind |-> "RequestException"], [kind |-> "HTTPError"]}
        \cup {[kind |-> "ok", body |-> b] : b \in ProbeBodies}

None == [kind |-> "None"]
Raised == [kind |-> "raise"]

\* ------------------------------------------------------------ run_sweep.py
\* wait_for_probes, lines 115-120: the probe is healthy iff status_code is 200.
ProbeHealthy(outcome) == outcome = "200"

\* Mutant: each probe overwrites all_healthy, so only the last answer counts.
HealthFoldLastWins(healthy, outcome) == ProbeHealthy(outcome)

\* wait_for_probes, lines 113-120: all_healthy after one more probe answered.
HealthFold(healthy, outcome) == healthy /\ ProbeHealthy(outcome)

\* Mutant: the sleep returns at once, the clock has not moved.
time_sleep_returns_at_once(t, secs) == t

\* time.sleep(secs): the clock after the sleep.
time_sleep(t, secs) == t + secs

\* wait_for_probes, line 112: the while test.
GateLoopCond(t, start, timeout) == t - start < timeout

\* Mutant: the RequestException is not caught and leaves collect_metrics.
collect_metrics_uncaught(outcome) ==
    IF outcome.kind = "ok" THEN [kind |-> "ok", body |-> outcome.body] ELSE Raised

\* collect_metrics, lines 136-142: the parsed body, or None after a
\* RequestException (transport error or raise_for_status).
collect_metrics(outcome) ==
    IF outcome.kind = "ok" THEN [kind |-> "ok", body |-> outcome.body] ELSE None

\* run_collection, line 174: `if metrics:`.
ShouldRecord(m) == m.kind = "ok" /\ Truthy(m.body)

\* run_collection, lines 175-182: the record of one poll.
MetricRecord(t, el, probe, body) ==
    [timestamp |-> t, elapsed_sec |-> el, region |-> probe.region,
     instance_family |-> probe.instance_family,
     instance_id |-> probe.instance_id, metrics |-> body]

\* Mutant: open(results_file, "w") truncates the file.
OpenTruncate(old) == <<>>

\* run_collection, line 166: open(results_file, "a") keeps what the file holds.
OpenAppend(old) == old

\* Mutant: the while test lets a round start at the deadline itself.
CollectLoopCondInclusive(t, endt) == t <= endt

\* run_collection, line 167: the while test.
CollectLoopCond(t, endt) == t < endt

\* Mutant: main ignores what wait_for_probes returned.
GatePassedIgnored(r) == r \in {"True", "False"}

\* main, line 278: collection is entered only when the gate returned True.
GatePassed(r) == r = "True"

\* A line left in the file by a prior partial run: a whole record, or a torn one.
PriorLines ==
    {[kind |-> "object",
      obj |-> MetricRecord(0, 60, ProbeConfig(1), [aggregate |-> AggBusy, counters |-> CtrQuiet])],
     [kind |-> "invalid"]}

\* What the results file may hold when the run starts.
PriorFiles == {<<>>} \cup {<<l>> : l \in PriorLines}

\* The file lines hold the JSON text of a record.
json_dumps(record) == [kind |-> "object", obj |-> record]

\* ------------------------------------------------------------ orchestrator
\* The command lines of the whole orchestrator: any phases, one short round.
MainArgs ==
    [deploy : BOOLEAN, collect : BOOLEAN, destroy : BOOLEAN,
     warmup : WarmupSecs, duration : {0, 1}, poll_interval : {1}]

\* The command lines of a collect-only run: up to MaxDurationSec of polling.
CollectArgs ==
    [deploy : {FALSE}, collect : {TRUE}, destroy : {FALSE},
     warmup : WarmupSecs, duration : 0..MaxDurationSec, poll_interval : PollSecs]

InitSweep ==
    /\ pc = "main"
    /\ args \in MainArgs
    /\ exit_code = -1
    /\ now = 0
    /\ tf_calls = <<>>
    /\ probes = <<>>
    /\ timeout_sec = 0
    /\ gate_start = 0
    /\ all_healthy = FALSE
    /\ gi = 0
    /\ sweep = <<>>
    /\ ready = "none"
    /\ file \in PriorFiles
    /\ file0 = <<>>
    /\ start_time = 0
    /\ end_time = 0
    /\ elapsed = 0
    /\ collection_count = 0
    /\ ci = 0
    /\ attempts = <<>>
    /\ round_start = 0
    /\ fetch_ok = 0
    /\ warmup_slept = FALSE
    /\ buffer = <<>>
    /\ returned = <<>>

\* Nothing of the report exists before analyze has scored.
NoReport ==
    /\ scored = <<>>
    /\ ranking_printed = 0
    /\ comparison = [kind |-> "not called", error |-> "", keys |-> {}, of |-> <<>>]
    /\ recommendation = [kind |-> "not printed", config |-> <<>>, runner_up |-> <<>>]
    /\ exported = [kind |-> "not exported", rankings |-> <<>>, recommendation |-> <<>>]
    /\ analyze_exit = -1

IdleAnalyze ==
    /\ log = <<>>
    /\ line_num = 0
    /\ metrics = EmptyObj
    /\ apc = "idle"
    /\ key_order = <<>>
    /\ json_output = FALSE
    /\ NoReport

gateVars == <<timeout_sec, gate_start, all_healthy, gi, sweep, ready>>
collectVars == <<file, file0, start_time, end_time, elapsed, collection_count, ci,
                 attempts, round_start, fetch_ok, warmup_slept, buffer, returned>>

\* sys.exit(code), or an exception that leaves main (code 2).
Exit(code) == pc' = "exit" /\ exit_code' = code

\* Mutant: the failure is printed and main goes on to the destroy phase.
CollectFailedGoesOn == pc' = "destroy" /\ exit_code' = exit_code

\* main, lines 271-273 and 278-280: a collect phase that cannot start prints
\* the error and calls sys.exit(1).
CollectFailed == Exit(1)

\* main, lines 246-248: no phase requested.
main_start ==
    /\ pc = "main"
    /\ IF ~(args.deploy \/ args.collect \/ args.destroy)
       THEN Exit(1)
       ELSE pc' = "deploy" /\ UNCHANGED exit_code
    /\ UNCHANGED <<args, now, tf_calls, probes, gateVars, collectVars, analyzeVars>>

\* main, lines 253-264: terraform init, then apply; subprocess.run(check=True)
\* raises when the command fails.
main_deploy ==
    /\ pc = "deploy"
    /\ IF args.deploy
       THEN \E r \in {"ok", "init failed", "apply failed"} :
                /\ tf_calls' = tf_calls \o
                       (IF r = "init failed" THEN <<"init">> ELSE <<"init", "apply">>)
                /\ IF r = "ok" THEN pc' = "collect" /\ UNCHANGED exit_code ELSE Exit(2)
       ELSE pc' = "collect" /\ UNCHANGED <<tf_calls, exit_code>>
    /\ UNCHANGED <<args, now, probes, gateVars, collectVars, analyzeVars>>

\* main, lines 267-276: resolve the endpoints; none is a failure, and
\* `terraform output` failing raises out of get_terraform_outputs (n = -1).
main_collect ==
    /\ pc = "collect"
    /\ IF args.collect
       THEN \E n \in -1..MaxProbes :
                IF n = -1
                THEN Exit(2) /\ UNCHANGED probes
                ELSE /\ probes' = parse_probe_endpoints(n)
                     /\ IF n = 0 THEN CollectFailed
                        ELSE pc' = "wait_for_probes" /\ UNCHANGED exit_code
       ELSE pc' = "destroy" /\ UNCHANGED <<probes, exit_code>>
    /\ UNCHANGED <<args, now, tf_calls, gateVars, collectVars, analyzeVars>>

\* wait_for_probes, lines 107-110: start = time.time().  timeout_sec is the
\* parameter (main passes the default); it ranges over 0..MaxTimeoutSec, which
\* with GateSleepSec = 10 covers no sweep, one sweep and two sweeps.
wait_for_probes_begin ==
    /\ pc = "wait_for_probes"
    /\ \E t \in 0..MaxTimeoutSec : timeout_sec' = t
    /\ gate_start' = now
    /\ pc' = "gate_while"
    /\ UNCHANGED <<args, exit_code, now, tf_calls, probes, all_healthy, gi, sweep, ready,
                   collectVars, analyzeVars>>

\* wait_for_probes, lines 112-113 and 130-131: the while test.
wait_for_probes_while ==
    /\ pc = "gate_while"
    /\ IF GateLoopCond(now, gate_start, timeout_sec)
       THEN /\ all_healthy' = TRUE
            /\ gi' = 1
            /\ sweep' = <<>>
            /\ pc' = "gate_for"
            /\ UNCHANGED ready
       ELSE /\ ready' = "False"
            /\ pc' = "gate_returned"
            /\ UNCHANGED <<all_healthy, gi, sweep>>
    /\ UNCHANGED <<args, exit_code, now, tf_calls, probes, timeout_sec, gate_start,
                   collectVars, analyzeVars>>

\* wait_for_probes, lines 114-120: one health request.
wait_for_probes_probe ==
    /\ pc = "gate_for"
    /\ \E outcome \in HealthOutcomes, d \in CallSecs :
           /\ now' = now + d
           /\ all_healthy' = HealthFold(all_healthy, outcome)
           /\ sweep' = Append(sweep, outcome)
    /\ IF gi = Len(probes)
       THEN pc' = "gate_if" /\ UNCHANGED gi
       ELSE gi' = gi + 1 /\ UNCHANGED pc
    /\ UNCHANGED <<args, exit_code, tf_calls, probes, timeout_sec, gate_start, ready,
                   collectVars, analyzeVars>>

\* wait_for_probes, lines 122-128: return True, or sleep and poll again.
wait_for_probes_if ==
    /\ pc = "gate_if"
    /\ IF all_healthy
       THEN ready' = "True" /\ pc' = "gate_returned" /\ UNCHANGED now
       ELSE now' = time_sleep(now, GateSleepSec) /\ pc' = "gate_while" /\ UNCHANGED ready
    /\ UNCHANGED <<args, exit_code, tf_calls, probes, timeout_sec, gate_start,
                   all_healthy, gi, sweep, collectVars, analyzeVars>>

\* main, lines 278-290: exit when the gate is not ready, else run_collection.
main_after_gate ==
    /\ pc = "gate_returned"
    /\ IF GatePassed(ready)
       THEN pc' = "run_collection" /\ UNCHANGED exit_code
       ELSE CollectFailed
    /\ timeout_sec' = 0 /\ gate_start' = 0 /\ all_healthy' = FALSE /\ gi' = 0
    /\ sweep' = <<>>
    /\ UNCHANGED <<args, now, tf_calls, probes, ready, collectVars, analyzeVars>>

\* run_collection, line 148: the path of the log.
ResultsFile == "sweep_results.jsonl"

\* run_collection, line 183: f.write puts the line in the buffer of f.
Write(buf, line) == Append(buf, line)

\* Mutant: no flush; the line stays in the buffer until the file is closed.
FlushNever(disk, buf) == [disk |-> disk, buffer |-> buf]

\* run_collection, line 184: f.flush() moves the buffer to the file on disk.
Flush(disk, buf) == [disk |-> disk \o buf, buffer |-> <<>>]

\* run_collection, lines 147-166: warmup sleep, the deadline, open for append.
run_collection_begin ==
    /\ pc = "run_collection"
    /\ now' = time_sleep(now, args.warmup)
    /\ warmup_slept' = TRUE
    /\ start_time' = now'
    /\ end_time' = start_time' + args.duration
    /\ collection_count' = 0
    /\ file0' = file
    /\ file' = OpenAppend(file)
    /\ buffer' = <<>>
    /\ pc' = "collect_while"
    /\ UNCHANGED <<args, exit_code, tf_calls, probes, gateVars, elapsed, ci, attempts,
                   round_start, fetch_ok, returned, analyzeVars>>

\* run_collection, lines 167-170 and 197-203: the while test.  Leaving the
\* with block closes the file, which writes out what the buffer holds; the
\* function returns results_file alone (line 203).
run_collection_while ==
    /\ pc = "collect_while"
    /\ IF CollectLoopCond(now, end_time)
       THEN /\ elapsed' = now - start_time
            /\ ci' = 1
            /\ attempts' = <<>>
            /\ round_start' = now
            /\ pc' = "collect_for"
            /\ UNCHANGED <<file, buffer, returned>>
       ELSE /\ pc' = "collection_returned"
            /\ file' = file \o buffer
            /\ buffer' = <<>>
            /\ returned' = <<ResultsFile>>
            /\ UNCHANGED <<elapsed, ci, attempts, round_start>>
    /\ UNCHANGED <<args, exit_code, now, tf_calls, probes, gateVars, file0,
                   start_time, end_time, collection_count, fetch_ok, warmup_slept,
                   analyzeVars>>

\* run_collection, lines 172-193: one fetch, and its record when `if metrics:`.
run_collection_probe ==
    /\ pc = "collect_for"
    /\ \E outcome \in MetricsOutcomes, d \in CallSecs :
           LET m == collect_metrics(outcome) IN
           IF m.kind = "raise"
           THEN /\ Exit(2)
                /\ now' = now + d
                /\ attempts' = Append(attempts, ci)
                /\ UNCHANGED <<file, buffer, collection_count, ci, fetch_ok>>
           ELSE /\ now' = now + d
                /\ attempts' = Append(attempts, ci)
                /\ fetch_ok' = fetch_ok + (IF outcome.kind = "ok" THEN 1 ELSE 0)
                /\ IF ShouldRecord(m)
                   THEN /\ LET line == json_dumps(MetricRecord(now', elapsed,
                                                                probes[ci], m.body))
                                w == Flush(file, Write(buffer, line))
                            IN file' = w.disk /\ buffer' = w.buffer
                        /\ collection_count' = collection_count + 1
                   ELSE UNCHANGED <<file, buffer, collection_count>>
                /\ IF ci = Len(probes)
                   THEN pc' = "collect_sleep" /\ UNCHANGED ci
                   ELSE ci' = ci + 1 /\ UNCHANGED pc
                /\ UNCHANGED exit_code
    /\ UNCHANGED <<args, tf_calls, probes, gateVars, file0, start_time, end_time,
                   elapsed, round_start, warmup_slept, returned, analyzeVars>>

\* run_collection, line 195: time.sleep(config.poll_interval_sec).
run_collection_sleep ==
    /\ pc = "collect_sleep"
    /\ now' = time_sleep(now, args.poll_interval)
    /\ pc' = "collect_while"
    /\ UNCHANGED <<args, exit_code, tf_calls, probes, gateVars, collectVars, analyzeVars>>

\* main, lines 290-292: run_collection returned.
main_after_collection ==
    /\ pc = "collection_returned"
    /\ pc' = "destroy"
    /\ UNCHANGED <<args, exit_code, now, tf_calls, probes, gateVars, collectVars,
                   analyzeVars>>

\* main, lines 295-300: terraform destroy.
main_destroy ==
    /\ pc = "destroy"
    /\ IF args.destroy
       THEN \E ok \in BOOLEAN :
                /\ tf_calls' = Append(tf_calls, "destroy")
                /\ Exit(IF ok THEN 0 ELSE 2)
       ELSE Exit(0) /\ UNCHANGED tf_calls
    /\ UNCHANGED <<args, now, probes, gateVars, collectVars, analyzeVars>>

Next ==
    \/ main_start
    \/ main_deploy
    \/ main_collect
    \/ wait_for_probes_begin
    \/ wait_for_probes_while
    \/ wait_for_probes_probe
    \/ wait_for_probes_if
    \/ main_after_gate
    \/ run_collection_begin
    \/ run_collection_while
    \/ run_collection_probe
    \/ run_collection_sleep
    \/ main_after_collection
    \/ main_destroy

Init == InitSweep /\ IdleAnalyze

Spec == Init /\ [][Next]_vars

\* A collect-only invocation (--collect alone).
InitLoops == Init /\ args.collect /\ ~args.deploy /\ ~args.destroy

\* The orchestrator process keeps running: a step that can be taken is taken.
FairSpec == InitLoops /\ [][Next]_vars /\ WF_vars(Next)

\* run_collection on its own: the state in which main calls it (line 290).
InitCollect ==
    /\ pc = "run_collection"
    /\ args \in CollectArgs
    /\ exit_code = -1
    /\ now = 0
    /\ tf_calls = <<>>
    /\ \E n \in 1..MaxProbes : probes = parse_probe_endpoints(n)
    /\ timeout_sec = 0
    /\ gate_start = 0
    /\ all_healthy = FALSE
    /\ gi = 0
    /\ sweep = <<>>
    /\ ready = "True"
    /\ file \in PriorFiles
    /\ file0 = <<>>
    /\ start_time = 0
    /\ end_time = 0
    /\ elapsed = 0
    /\ collection_count = 0
    /\ ci = 0
    /\ attempts = <<>>
    /\ round_start = 0
    /\ fetch_ok = 0
    /\ warmup_slept = FALSE
    /\ buffer = <<>>
    /\ returned = <<>>
    /\ IdleAnalyze

NextCollect ==
    \/ run_collection_begin
    \/ run_collection_while
    \/ run_collection_probe
    \/ run_collection_sleep

SpecCollect == InitCollect /\ [][NextCollect]_vars

\* -------------------------------------------------------------- analyze.py
RECURSIVE SeqsUpTo(_, _)
SeqsUpTo(S, n) ==
    IF n = 0 THEN {<<>>}
    ELSE LET shorter == SeqsUpTo(S, n - 1)
         IN shorter \cup {Append(q, x) : q \in {r \in shorter : Len(r) = n - 1}, x \in S}

Max(a, b) == IF a >= b THEN a ELSE b

AggSlow == [count |-> 3, p50_us |-> 30000, p99_us |-> 60000, p999_us |-> 90000, cv |-> 9]

\* The metrics payloads found in a log.
LogBodies ==
    {[aggregate |-> AggBusy, counters |-> CtrQuiet],
     [aggregate |-> AggIdle, counters |-> CtrNoisy],
     [aggregate |-> AggSlow],
     EmptyObj}

\* The lines of a log: records of two configurations, text that is not JSON,
\* an empty line, and JSON that is not an object (a number).
LogLines ==
    {json_dumps(MetricRecord(0, 0, ProbeConfig(n), b)) : n \in 1..2, b \in LogBodies}
        \cup {[kind |-> "invalid"], [kind |-> "empty"], [kind |-> "number"]}

\* json.loads(line.strip()): JSONDecodeError for text that is not JSON (the
\* empty text included), else the value: a dict for an object, an int for a number.
json_loads(line) ==
    IF line.kind \in {"invalid", "empty"} THEN [type |-> "JSONDecodeError"]
    ELSE IF line.kind = "object" THEN [type |-> "dict", value |-> line.obj]
    ELSE [type |-> "int"]

\* load_results, lines 59-63: only json.JSONDecodeError is caught and skipped.
Skipped(parsed) == parsed.type = "JSONDecodeError"

\* ConfigMetrics(region, instance_family): empty samples, zero counters.
ConfigMetrics(region, family) ==
    [region |-> region, instance_family |-> family,
     p50_samples |-> <<>>, p99_samples |-> <<>>, p999_samples |-> <<>>,
     cv_samples |-> <<>>, reconnects |-> 0, errors |-> 0, message_count |-> 0]

\* Mutant: the count test is >= 0, so idle probes contribute samples too.
HasSamplesAlways(agg) == Get(agg, "count", 0) >= 0

\* load_results, line 76: `if agg.get("count", 0) > 0`.
HasSamples(agg) == Get(agg, "count", 0) > 0

\* Mutant: the latest reported value replaces the counter.
WatermarkLatest(old, reported) == reported

\* load_results, lines 83-85: max(old, reported).
Watermark(old, reported) == Max(old, reported)

\* load_results, line 65: the aggregation key of a record.
KeyOf(record) == <<record.region, record.instance_family>>

\* load_results, lines 65-85: fold one record into the dict.
Ingest(mm, record) ==
    LET key == KeyOf(record)
        m == IF key \in DOMAIN mm THEN mm[key]
             ELSE ConfigMetrics(record.region, record.instance_family)
        agg == Get(record.metrics, "aggregate", EmptyObj)
        counters == Get(record.metrics, "counters", EmptyObj)
        sampled ==
            IF HasSamples(agg)
            THEN [m EXCEPT !.p50_samples = Append(@, Get(agg, "p50_us", 0)),
                           !.p99_samples = Append(@, Get(agg, "p99_us", 0)),
                           !.p999_samples = Append(@, Get(agg, "p999_us", 0)),
                           !.cv_samples = Append(@, Get(agg, "cv", 0))]
            ELSE m
        merged ==
            [sampled EXCEPT
                !.reconnects = Watermark(@, Get(counters, "reconnects", 0)),
                !.errors = Watermark(@, Get(counters, "errors", 0)),
                !.message_count = Watermark(@, Get(counters, "messages", 0))]
    IN [k \in DOMAIN mm \cup {key} |-> IF k = key THEN merged ELSE mm[k]]

IdleSweep ==
    /\ pc = "exit"
    /\ args \in {a \in MainArgs : ~a.deploy /\ ~a.collect /\ ~a.destroy
                                   /\ a.warmup = 0 /\ a.duration = 0}
    /\ exit_code = 0
    /\ now = 0
    /\ tf_calls = <<>>
    /\ probes = <<>>
    /\ timeout_sec = 0
    /\ gate_start = 0
    /\ all_healthy = FALSE
    /\ gi = 0
    /\ sweep = <<>>
    /\ ready = "none"
    /\ file = <<>>
    /\ file0 = <<>>
    /\ start_time = 0
    /\ end_time = 0
    /\ elapsed = 0
    /\ collection_count = 0
    /\ ci = 0
    /\ attempts = <<>>
    /\ round_start = 0
    /\ fetch_ok = 0
    /\ warmup_slept = FALSE
    /\ buffer = <<>>
    /\ returned = <<>>

\* analyze, line 335: load_results(results_file) is called on a log.
InitAnalyze ==
    /\ log \in SeqsUpTo(LogLines, MaxLines)
    /\ line_num = 0
    /\ metrics = EmptyObj
    /\ apc = "load_results"
    /\ key_order = <<>>
    /\ json_output \in BOOLEAN
    /\ NoReport
    /\ IdleSweep

\* load_results, lines 59-85: the body of the for loop on one line.  A value
\* that is not a dict makes record["region"] raise TypeError.
LoadLine(mm, line) ==
    LET parsed == json_loads(line) IN
    IF Skipped(parsed) THEN [status |-> "load_results", metrics |-> mm]
    ELSE IF parsed.type = "dict"
         THEN [status |-> "load_results", metrics |-> Ingest(mm, parsed.value)]
         ELSE [status |-> "TypeError", metrics |-> mm]

\* load_results, lines 53-87, as a function of the lines of the file.
RECURSIVE load_results(_, _)
load_results(mm, lines) ==
    IF lines = <<>> THEN [status |-> "loaded", metrics |-> mm]
    ELSE LET r == LoadLine(mm, Head(lines)) IN
         IF r.status = "TypeError" THEN r ELSE load_results(r.metrics, Tail(lines))

\* load_results, lines 67-71: a dict keeps its keys in insertion order; a key
\* is added at the end the first time a record has it.
InsertionOrder(order, before, after) ==
    IF after \ before = {} THEN order
    ELSE Append(order, CHOOSE k \in after \ before : TRUE)

\* load_results, lines 58-85: one line of the file.
load_results_line ==
    /\ apc = "load_results"
    /\ line_num < Len(log)
    /\ LET r == LoadLine(metrics, log[line_num + 1]) IN
           /\ metrics' = r.metrics
           /\ apc' = r.status
           /\ key_order' = InsertionOrder(key_order, DOMAIN metrics, DOMAIN r.metrics)
           /\ analyze_exit' = IF r.status = "TypeError" THEN 1 ELSE analyze_exit
    /\ line_num' = line_num + 1
    /\ UNCHANGED <<log, json_output, scored, ranking_printed, comparison,
                   recommendation, exported, sweepVars>>

\* load_results, line 87: return metrics at the end of the file.
load_results_return ==
    /\ apc = "load_results"
    /\ line_num = Len(log)
    /\ apc' = "loaded"
    /\ UNCHANGED <<log, line_num, metrics, key_order, reportVars, sweepVars>>

NextAnalyze ==
    \/ load_results_line
    \/ load_results_return

SpecAnalyze == InitAnalyze /\ [][NextAnalyze]_vars

\* ---------------------------------------------------------------------------
\* analyze.py: constraints and scores.  Latencies are whole microseconds and a
\* cv is counted in hundredths; a median is carried doubled (Median2), so that
\* the median of an even number of samples stays a whole number.
\* ---------------------------------------------------------------------------

MaxP99Us == 50000

MaxReconnects == 1

MaxTailRatio == 3

MinCompareSamples == 5

NumLess(a, b) == a < b

\* 2 * np.median(seq), seq not empty.
Median2(seq) ==
    LET s == SortSeq(seq, NumLess)
        n == Len(seq)
    IN IF n % 2 = 1 THEN 2 * s[(n + 1) \div 2]
       ELSE s[n \div 2] + s[n \div 2 + 1]

\* int(np.percentile(seq, q)) with numpy's linear interpolation between the
\* two closest ranks; seq holds whole numbers >= 0.
Percentile(seq, q) ==
    LET s == SortSeq(seq, NumLess)
        pos == q * (Len(seq) - 1)
        i == pos \div 100 + 1
        f == pos % 100
    IN IF f = 0 THEN s[i]
       ELSE (100 * s[i] + f * (s[i + 1] - s[i])) \div 100

\* Mutant: the limit itself already violates the p99 constraint.
ExceedsP99LimitInclusive(p99x2) == p99x2 >= 2 * MaxP99Us

\* check_hard_constraints, line 156: `p99 > 50_000` on the median.
ExceedsP99Limit(p99x2) == p99x2 > 2 * MaxP99Us

\* Mutant: one reconnect more is tolerated.
ExceedsReconnectLimitLax(reconnects) == reconnects > MaxReconnects + 1

\* check_hard_constraints, line 160: `m.reconnects > 1`.
ExceedsReconnectLimit(reconnects) == reconnects > MaxReconnects

\* Mutant: the ratio is looked at whatever the medians are.
ExceedsTailRatioUnguarded(p99x2, p999x2) == p999x2 > MaxTailRatio * p99x2

\* Mutant: the tail may not exceed the p99 at all.
ExceedsTailRatioAboveOne(p99x2, p999x2) ==
    p99x2 > 0 /\ p999x2 > 0 /\ p999x2 > p99x2

\* check_hard_constraints, lines 164-167: the ratio is only looked at when
\* both medians are positive; `p999 / p99 > 3.0`.
ExceedsTailRatio(p99x2, p999x2) ==
    p99x2 > 0 /\ p999x2 > 0 /\ p999x2 > MaxTailRatio * p99x2

\* Mutant: a configuration without samples passes with no violations.
NoDataVerdictPasses == [passes |-> TRUE, violations |-> <<>>]

\* check_hard_constraints, lines 149-150.
NoDataVerdict == [passes |-> FALSE, violations |-> <<"no data collected">>]

\* check_hard_constraints(m): (passes, violations).
check_hard_constraints(m) ==
    IF m.p99_samples = <<>> THEN NoDataVerdict
    ELSE LET p99 == Median2(m.p99_samples)
             p999 == IF m.p999_samples # <<>> THEN Median2(m.p999_samples) ELSE 0
             v1 == IF ExceedsP99Limit(p99) THEN <<"p99 > 50ms limit">> ELSE <<>>
             v2 == IF ExceedsReconnectLimit(m.reconnects)
                   THEN <<"Reconnects > 1/hour limit">> ELSE <<>>
             v3 == IF ExceedsTailRatio(p99, p999)
                   THEN <<"p999/p99 ratio > 3.0 limit">> ELSE <<>>
             violations == v1 \o v2 \o v3
         IN [passes |-> violations = <<>>, violations |-> violations]

\* A score is +infinity or the exact fraction num / den, den > 0.
Infinity == [inf |-> TRUE, num |-> 0, den |-> 1]

Fraction(num, den) == [inf |-> FALSE, num |-> num, den |-> den]

HasP99Samples(x) == x.p99_samples # <<>>

HasCvSamples(x) == x.cv_samples # <<>>

Passes(x) == check_hard_constraints(x).passes

\* Mutant: only the configurations that pass the constraints set the bounds.
all_p99_passing(all_metrics) ==
    LET with == SelectSeq(SelectSeq(all_metrics, HasP99Samples), Passes)
    IN [i \in 1..Len(with) |-> Median2(with[i].p99_samples)]

\* compute_score, line 102: the median p99 of every configuration with samples.
all_p99(all_metrics) ==
    LET with == SelectSeq(all_metrics, HasP99Samples)
    IN [i \in 1..Len(with) |-> Median2(with[i].p99_samples)]

\* compute_score, line 103.
all_cv(all_metrics) ==
    LET with == SelectSeq(all_metrics, HasCvSamples)
    IN [i \in 1..Len(with) |-> Median2(with[i].cv_samples)]

\* min(...) and max(...) of a sequence that is not empty.
min(seq) == CHOOSE x \in {seq[i] : i \in 1..Len(seq)} :
                \A j \in 1..Len(seq) : x <= seq[j]

max(seq) == CHOOSE x \in {seq[i] : i \in 1..Len(seq)} :
                \A j \in 1..Len(seq) : x >= seq[j]

\* round(a / b, 2) in hundredths, a >= 0 and b > 0.
Round2(a, b) == (200 * a + b) \div (2 * b)

\* compute_score, lines 126-140: the details of a configuration with samples.
\* A median is truncated by int(); cv_median stays doubled (units of 0.005).
Details(m, norm_p99, norm_cv) ==
    LET p99 == Median2(m.p99_samples) IN
    [p99_median_us |-> p99 \div 2,
     p99_p10 |-> Percentile(m.p99_samples, 10),
     p99_p90 |-> Percentile(m.p99_samples, 90),
     p50_median_us |-> IF m.p50_samples # <<>> THEN Median2(m.p50_samples) \div 2 ELSE 0,
     cv_median |-> Median2(m.cv_samples),
     p999_median_us |-> IF m.p999_samples # <<>> THEN Median2(m.p999_samples) \div 2 ELSE 0,
     p999_p99_ratio |-> IF p99 > 0 /\ m.p999_samples # <<>>
                        THEN Round2(Median2(m.p999_samples), p99) ELSE 0,
     normalized_p99 |-> norm_p99,
     normalized_cv |-> norm_cv,
     reconnects |-> m.reconnects,
     errors |-> m.errors,
     message_count |-> m.message_count,
     samples |-> Len(m.p99_samples)]

\* compute_score(m, all_metrics): (score, details).  The score
\* 0.7 * norm_p99 + 0.3 * norm_cv is kept as one exact fraction.
compute_score(m, all_metrics) ==
    IF m.p99_samples = <<>>
    THEN [score |-> Infinity, details |-> [error |-> "no samples"]]
    ELSE IF all_p99(all_metrics) = <<>> \/ all_cv(all_metrics) = <<>>
    THEN [score |-> Infinity, details |-> [error |-> "insufficient data"]]
    ELSE LET min_p99 == min(all_p99(all_metrics))
             max_p99 == max(all_p99(all_metrics))
             max_cv == max(all_cv(all_metrics))
             p99 == Median2(m.p99_samples)
             cv == Median2(m.cv_samples)
             norm_p99 == IF max_p99 > min_p99
                         THEN Fraction(p99 - min_p99, max_p99 - min_p99)
                         ELSE Fraction(0, 1)
             norm_cv == IF max_cv > 0 THEN Fraction(cv, max_cv) ELSE Fraction(0, 1)
             score == Fraction(7 * norm_p99.num * norm_cv.den
                                 + 3 * norm_cv.num * norm_p99.den,
                               10 * norm_p99.den * norm_cv.den)
         IN [score |-> score, details |-> Details(m, norm_p99, norm_cv)]

\* analyze, lines 346-358: the entry appended to `scored` for m.
ScoredEntry(m, all_metrics) ==
    LET c == check_hard_constraints(m)
        s == compute_score(m, all_metrics)
    IN [region |-> m.region, instance_family |-> m.instance_family,
        score |-> s.score, passes_constraints |-> c.passes,
        violations |-> c.violations, details |-> s.details, metrics |-> m]

\* a < b for two scores (Python floats, +inf included).
ScoreLess(a, b) ==
    IF a.inf THEN FALSE
    ELSE IF b.inf THEN TRUE
    ELSE IF a.den = b.den THEN a.num < b.num
    ELSE a.num * b.den < b.num * a.den

\* Mutant: the key is the score alone.
SortKeyLessScoreOnly(a, b) == ScoreLess(a.score, b.score)

\* analyze, line 361: the key (not passes_constraints, score), compared as a
\* tuple with False < True.
SortKeyLess(a, b) ==
    \/ a.passes_constraints /\ ~b.passes_constraints
    \/ /\ a.passes_constraints = b.passes_constraints
       /\ ScoreLess(a.score, b.score)

\* list.sort is stable: an entry goes after the entries whose key is not
\* greater than its own.
InsertSorted(seq, x) ==
    LET after == {i \in 1..Len(seq) : SortKeyLess(x, seq[i])}
        at == IF after = {} THEN Len(seq) + 1
              ELSE CHOOSE i \in after : \A j \in after : i <= j
    IN SubSeq(seq, 1, at - 1) \o <<x>> \o SubSeq(seq, at, Len(seq))

RECURSIVE SortPrefix(_, _)
SortPrefix(seq, n) ==
    IF n = 0 THEN <<>> ELSE InsertSorted(SortPrefix(seq, n - 1), seq[n])

\* scored.sort(key=...), line 361.
sort(seq) == SortPrefix(seq, Len(seq))

PassesConstraints(s) == s.passes_constraints

\* Mutant: every entry counts as passing.
passing_all(entries) == entries

\* `passing = [s for s in scored if s["passes_constraints"]]`.
passing(entries) == SelectSeq(entries, PassesConstraints)

\* Mutant: the comparison is refused only when both have too few samples.
TooFewSamplesBoth(m1, m2) ==
    Len(m1.p99_samples) < MinCompareSamples /\ Len(m2.p99_samples) < MinCompareSamples

\* statistical_comparison, line 177.
TooFewSamples(m1, m2) ==
    Len(m1.p99_samples) < MinCompareSamples \/ Len(m2.p99_samples) < MinCompareSamples

\* stats.mannwhitneyu raises ValueError in some scipy releases when all the
\* numbers of both samples are identical, and returns a p-value in the others;
\* on any other input it returns a p-value.
mannwhitneyu(x, y) ==
    IF Cardinality({x[i] : i \in 1..Len(x)} \cup {y[i] : i \in 1..Len(y)}) = 1
    THEN {"ValueError", "p_value"}
    ELSE {"p_value"}

ComparisonResult(kind, error, keys) == [kind |-> kind, error |-> error, keys |-> keys]

\* statistical_comparison(m1, m2): the results the call can have.  The numbers
\* of a result (p-value, bootstrap interval) are scipy's and numpy's; a
\* result is told apart by the keys of the dict.
statistical_comparison(m1, m2) ==
    IF m1.p99_samples = <<>> \/ m2.p99_samples = <<>>
    THEN {ComparisonResult("None", "", {})}
    ELSE IF TooFewSamples(m1, m2)
    THEN {ComparisonResult("error", "insufficient samples for statistical comparison",
                           {"error"})}
    ELSE {IF o = "ValueError"
          THEN ComparisonResult("error", "statistical test failed", {"error"})
          ELSE ComparisonResult("result", "",
                   {"mann_whitney_p", "significant_at_005", "significant_at_001",
                    "p99_diff_median_us", "p99_diff_ci_95_us"})
          : o \in mannwhitneyu(m1.p99_samples, m2.p99_samples)}

\* analyze, line 336: list(metrics.values()), in insertion order.
all_metrics == [i \in 1..Len(key_order) |-> metrics[key_order[i]]]

ConfigOf(s) == <<s.region, s.instance_family>>

\* analyze, lines 336-342: no configuration loaded is the "no data" end.
analyze_begin ==
    /\ apc = "loaded"
    /\ IF all_metrics = <<>>
       THEN apc' = "no data" /\ analyze_exit' = 1
       ELSE apc' = "score" /\ analyze_exit' = analyze_exit
    /\ UNCHANGED <<log, line_num, metrics, key_order, json_output, scored,
                   ranking_printed, comparison, recommendation, exported, sweepVars>>

\* analyze, lines 344-358: every configuration is checked and scored.
analyze_score ==
    /\ apc = "score"
    /\ scored' = [i \in 1..Len(all_metrics) |-> ScoredEntry(all_metrics[i], all_metrics)]
    /\ apc' = "sort"
    /\ UNCHANGED <<log, line_num, metrics, key_order, json_output, ranking_printed,
                   comparison, recommendation, exported, analyze_exit, sweepVars>>

\* analyze, line 361.
analyze_sort ==
    /\ apc = "sort"
    /\ scored' = sort(scored)
    /\ apc' = "print_ranking"
    /\ UNCHANGED <<log, line_num, metrics, key_order, json_output, ranking_printed,
                   comparison, recommendation, exported, analyze_exit, sweepVars>>

\* print_ranking, lines 219-225: d['p99_median_us'] and the other keys are
\* read from the details of every entry.
Printable(s) == "p99_median_us" \in DOMAIN s.details

\* print_ranking, lines 209-230: the entries are printed in order; the first
\* entry whose details lack the keys raises KeyError, which nothing catches.
print_ranking ==
    /\ apc = "print_ranking"
    /\ LET bad == {i \in 1..Len(scored) : ~Printable(scored[i])} IN
       IF bad = {}
       THEN /\ ranking_printed' = Len(scored)
            /\ apc' = "print_comparison"
            /\ analyze_exit' = analyze_exit
       ELSE /\ ranking_printed' = (CHOOSE i \in bad : \A j \in bad : i <= j) - 1
            /\ apc' = "KeyError"
            /\ analyze_exit' = 1
    /\ UNCHANGED <<log, line_num, metrics, key_order, json_output, scored,
                   comparison, recommendation, exported, sweepVars>>

\* print_comparison, lines 233-259: the two best passing entries are compared.
print_comparison ==
    /\ apc = "print_comparison"
    /\ IF Len(passing(scored)) < 2
       THEN comparison' = comparison
       ELSE \E c \in statistical_comparison(passing(scored)[1].metrics,
                                            passing(scored)[2].metrics) :
                comparison' = [kind |-> c.kind, error |-> c.error, keys |-> c.keys,
                               of |-> <<ConfigOf(passing(scored)[1]),
                                        ConfigOf(passing(scored)[2])>>]
    /\ apc' = "print_recommendation"
    /\ UNCHANGED <<log, line_num, metrics, key_order, json_output, scored,
                   ranking_printed, recommendation, exported, analyze_exit, sweepVars>>

\* analyze, lines 366-369: after the recommendation, export when asked to.
AfterRecommendation == IF json_output THEN "export_json" ELSE "done"

\* print_recommendation, lines 262-294.  The winner is printed before the
\* runner-up; the improvement divides by the runner-up's p99_median_us, an
\* int, so a runner-up at 0 raises ZeroDivisionError.
print_recommendation ==
    /\ apc = "print_recommendation"
    /\ IF passing(scored) = <<>>
       THEN /\ recommendation' = [kind |-> "no viable configuration",
                                   config |-> <<>>, runner_up |-> <<>>]
            /\ apc' = AfterRecommendation
            /\ analyze_exit' = IF json_output THEN analyze_exit ELSE 0
       ELSE IF Len(passing(scored)) = 1
       THEN /\ recommendation' = [kind |-> "recommended",
                                   config |-> ConfigOf(passing(scored)[1]),
                                   runner_up |-> <<>>]
            /\ apc' = AfterRecommendation
            /\ analyze_exit' = IF json_output THEN analyze_exit ELSE 0
       ELSE IF passing(scored)[2].details.p99_median_us = 0
       THEN /\ recommendation' = [kind |-> "recommended",
                                   config |-> ConfigOf(passing(scored)[1]),
                                   runner_up |-> <<>>]
            /\ apc' = "ZeroDivisionError"
            /\ analyze_exit' = 1
       ELSE /\ recommendation' = [kind |-> "recommended",
                                   config |-> ConfigOf(passing(scored)[1]),
                                   runner_up |-> ConfigOf(passing(scored)[2])]
            /\ apc' = AfterRecommendation
            /\ analyze_exit' = IF json_output THEN analyze_exit ELSE 0
    /\ UNCHANGED <<log, line_num, metrics, key_order, json_output, scored,
                   ranking_printed, comparison, exported, sweepVars>>

\* export_json, lines 297-328: the rankings in order and the first passing
\* entry, or None (here <<>>), as the recommendation.
export_json ==
    /\ apc = "export_json"
    /\ exported' = [kind |-> "exported",
                    rankings |-> [i \in 1..Len(scored) |-> ConfigOf(scored[i])],
                    recommendation |-> IF passing(scored) = <<>> THEN <<>>
                                       ELSE ConfigOf(passing(scored)[1])]
    /\ apc' = "done"
    /\ analyze_exit' = 0
    /\ UNCHANGED <<log, line_num, metrics, key_order, json_output, scored,
                   ranking_printed, comparison, recommendation, sweepVars>>

NextReport ==
    \/ load_results_line
    \/ load_results_return
    \/ analyze_begin
    \/ analyze_score
    \/ analyze_sort
    \/ print_ranking
    \/ print_comparison
    \/ print_recommendation
    \/ export_json

\* analyze on a log of LogLines.
SpecReport == InitAnalyze /\ [][NextReport]_vars

\* ---------------------------------------------------------------------------
\* analyze on the logs of up to MaxConfigs configurations, each with one of
\* the histories below.
\* ---------------------------------------------------------------------------

MaxConfigs == 3

\* The metrics payload of one poll that saw messages.
Sample(p50, p99, p999, cv, reconnects) ==
    [aggregate |-> [count |-> 1, p50_us |-> p50, p99_us |-> p99,
                    p999_us |-> p999, cv |-> cv],
     counters |-> [reconnects |-> reconnects, errors |-> 0, messages |-> 1]]

\* A probe that never saw a message: only count = 0 records.
OnlyIdle == <<[aggregate |-> AggIdle, counters |-> CtrQuiet]>>

ScenarioX ==
    <<Sample(8000, 10000, 15000, 5, 0), Sample(8000, 12000, 16000, 6, 0),
      Sample(8000, 11000, 15500, 5, 0)>>

\* Scenario Y leaves the cv open: once below X's and once above it.
ScenarioYCalm ==
    <<Sample(30000, 40000, 60000, 2, 0), Sample(30000, 42000, 61000, 2, 0),
      Sample(30000, 41000, 60000, 2, 0)>>

ScenarioYJittery ==
    <<Sample(30000, 40000, 60000, 9, 0), Sample(30000, 42000, 61000, 9, 0),
      Sample(30000, 41000, 60000, 9, 0)>>

\* Median p99 exactly 50,000.
AtP99Limit == <<Sample(30000, 50000, 60000, 5, 0)>>

\* Median p99 50,000.5.
OverP99Limit == <<Sample(30000, 50000, 60000, 5, 0), Sample(30000, 50001, 60000, 5, 0)>>

FiveSamples ==
    <<Sample(7000, 9000, 20000, 4, 0), Sample(7000, 13000, 20000, 4, 0),
      Sample(7000, 10000, 20000, 4, 1), Sample(7000, 12000, 20000, 4, 1),
      Sample(7000, 11000, 20000, 4, 1)>>

FourSamples ==
    <<Sample(15000, 20000, 30000, 6, 0), Sample(15000, 23000, 30000, 6, 0),
      Sample(15000, 21000, 30000, 6, 0), Sample(15000, 22000, 30000, 6, 0)>>

\* Messages were seen but every latency figure is 0.
ZeroLatency ==
    <<Sample(0, 0, 0, 0, 0), Sample(0, 0, 0, 0, 0), Sample(0, 0, 0, 0, 0),
      Sample(0, 0, 0, 0, 0), Sample(0, 0, 0, 0, 0)>>

\* Excellent latency, two reconnects.
FastButFlapping == <<Sample(500, 1000, 1500, 1, 2)>>

\* p999 / p99 just above 3.
HeavyTail == <<Sample(8000, 10000, 30001, 5, 0)>>

\* p999 / p99 exactly 3.
TailAtLimit == <<Sample(8000, 10000, 30000, 5, 0)>>

\* A median p99 of 0 under a positive median p999.
ZeroP99Tail == <<Sample(0, 0, 5000, 5, 0)>>

Histories ==
    {OnlyIdle, ScenarioX, ScenarioYCalm, ScenarioYJittery, AtP99Limit, OverP99Limit,
     FiveSamples, FourSamples, ZeroLatency, FastButFlapping, HeavyTail, TailAtLimit,
     ZeroP99Tail}

\* The log lines of configuration n with history h.
LinesOf(n, h) ==
    [i \in 1..Len(h) |-> json_dumps(MetricRecord(0, 0, ProbeConfig(n), h[i]))]

\* The log of the configurations 1..Len(hs), one after the other.
RECURSIVE LogOf(_)
LogOf(hs) ==
    IF hs = <<>> THEN <<>>
    ELSE LogOf(SubSeq(hs, 1, Len(hs) - 1)) \o LinesOf(Len(hs), hs[Len(hs)])

\* The key order load_results leaves after the lines.
RECURSIVE insertion_order(_, _, _)
insertion_order(order, mm, lines) ==
    IF lines = <<>> THEN order
    ELSE LET r == LoadLine(mm, Head(lines)) IN
         IF r.status = "TypeError" THEN order
         ELSE insertion_order(InsertionOrder(order, DOMAIN mm, DOMAIN r.metrics),
                              r.metrics, Tail(lines))

\* analyze, line 336: load_results has returned the dict of such a log.
InitScore ==
    /\ \E hs \in SeqsUpTo(Histories, MaxConfigs) :
           /\ log = LogOf(hs)
           /\ metrics = load_results(EmptyObj, LogOf(hs)).metrics
           /\ key_order = insertion_order(<<>>, EmptyObj, LogOf(hs))
    /\ line_num = Len(log)
    /\ apc = "loaded"
    /\ json_output \in BOOLEAN
    /\ NoReport
    /\ IdleSweep

NextScore ==
    \/ analyze_begin
    \/ analyze_score
    \/ analyze_sort
    \/ print_ranking
    \/ print_comparison
    \/ print_recommendation
    \/ export_json

SpecScore == InitScore /\ [][NextScore]_vars

\* ==================================================================== claims
\* HTTP statuses of the model that are success (2xx) statuses.
SuccessStatuses == {"200", "204"}

GatePcs == {"gate_while", "gate_for", "gate_if", "gate_returned"}
CollectPcs == {"collect_while", "collect_for", "collect_sleep", "collection_returned"}

\* C1: wait_for_probes returns True only when, in the sweep it has just made,
\* every probe of the list answered with a success status (`sweep` holds the
\* answers of the current sweep only, so health of an earlier sweep does not
\* count); a RequestException or a non-success status makes the probe not
\* healthy and never ends the process with an exception.
C1_ReadyOnlyAfterHealthySweep ==
    /\ (pc = "gate_returned" /\ ready = "True") =>
           /\ Len(sweep) = Len(probes)
           /\ \A i \in 1..Len(sweep) : sweep[i] \in SuccessStatuses
    /\ (pc \in {"gate_for", "gate_if"} /\ \E i \in 1..Len(sweep) : sweep[i] \notin SuccessStatuses)
           => ~all_healthy
    /\ pc \in GatePcs => exit_code = -1

\* C1 witness: the gate returns True from a second sweep of two probes, after a
\* first sweep that was not healthy.
C1_Witness ==
    /\ pc = "gate_returned" /\ ready = "True"
    /\ Len(probes) = 2
    /\ now - gate_start >= GateSleepSec

\* C2: collection never starts unless the gate passed: nothing of run_collection
\* (warmup sleep, fetch, write) has happened while ready is not True, and from
\* the state in which wait_for_probes returned False the only step is the exit
\* with status 1, which leaves the clock and the file alone.
C2_NoCollectionWithoutGate ==
    /\ [](ready # "True" =>
            /\ ~warmup_slept /\ fetch_ok = 0 /\ collection_count = 0 /\ attempts = <<>>
            /\ pc \notin CollectPcs \cup {"run_collection"})
    /\ [][ready = "False" =>
            /\ pc' = "exit" /\ exit_code' = 1
            /\ UNCHANGED <<now, file, ready, tf_calls>>]_vars

\* C2 witness: a collect run ended with status 1 after the gate timed out, having
\* slept between sweeps.
C2_Witness ==
    /\ pc = "exit" /\ exit_code = 1 /\ ready = "False"
    /\ args.collect /\ now >= GateSleepSec

\* The probe indices 1..n in list order.
InOrder(n) == [i \in 1..n |-> i]

\* C3: in every round each probe is fetched exactly once, in list order,
\* whatever the earlier fetches of the round ended in; a failed fetch writes no
\* record, is followed by the next probe (or the round's sleep) and never ends
\* run_collection.
C3_EveryProbeEveryRound ==
    /\ [](/\ pc = "collect_for" => attempts = InOrder(ci - 1)
          /\ pc = "collect_sleep" => attempts = InOrder(Len(probes))
          /\ exit_code = -1)
    /\ [][(pc = "collect_for" /\ fetch_ok' = fetch_ok) =>
            /\ file' = file /\ collection_count' = collection_count
            /\ attempts' = Append(attempts, ci)
            /\ IF ci < Len(probes)
               THEN pc' = "collect_for" /\ ci' = ci + 1
               ELSE pc' = "collect_sleep"]_vars

\* C3 witness: a round over two probes is complete, the first fetch failed and
\* the second wrote the only record of the run.
C3_Witness ==
    /\ pc = "collect_sleep" /\ attempts = <<1, 2>>
    /\ fetch_ok = 1 /\ collection_count = 1
    /\ file[Len(file)].obj.instance_id = 2

\* C4: every successful fetch (2xx, JSON body) appends exactly one line, so the
\* lines appended by the run are as many as its successful fetches.
C4_OneLinePerSuccessfulFetch ==
    pc \in CollectPcs =>
        /\ collection_count = fetch_ok
        /\ Len(file) = Len(file0) + fetch_ok

\* C5: the deadline is start_time + measurement_sec with start_time taken after
\* the warmup sleep (the clock is 0 when run_collection is called, so that is
\* warmup_sec); a round only starts before the deadline; run_collection returns
\* only at or after the deadline, whatever was fetched or written.
C5_DeadlineOnly ==
    /\ pc \in CollectPcs =>
           /\ start_time = args.warmup
           /\ end_time = start_time + args.duration
    /\ pc \in {"collect_for", "collect_sleep"} => round_start < end_time
    /\ pc = "collection_returned" => now >= end_time
    /\ exit_code = -1

\* C5 witness: run_collection returned after a warmup and more than one round
\* in which no fetch succeeded.
C5_Witness ==
    /\ pc = "collection_returned"
    /\ args.warmup > 0 /\ elapsed > 0
    /\ fetch_ok = 0 /\ attempts # <<>>

\* C6: the lines the file held when run_collection opened it stay its prefix,
\* and the file only ever changes by one record of the probe being fetched
\* appended at its end.
C6_AppendOnly ==
    /\ [](pc \in CollectPcs =>
            /\ Len(file) = Len(file0) + collection_count
            /\ SubSeq(file, 1, Len(file0)) = file0)
    /\ [][file' # file =>
            /\ pc = "collect_for"
            /\ Len(file') = Len(file) + 1
            /\ SubSeq(file', 1, Len(file)) = file
            /\ file'[Len(file')].obj.instance_id = probes[ci].instance_id
            /\ file'[Len(file')].obj.elapsed_sec = elapsed]_vars

\* C6 witness: the file held a line of a prior run and the run has appended
\* records of two rounds after it.
C6_Witness ==
    /\ Len(file0) = 1 /\ file[1] = file0[1]
    /\ Len(file) >= 3
    /\ file[Len(file)].obj.elapsed_sec > file[2].obj.elapsed_sec

\* The lines of the log that parse as a JSON object.
IsObjectLine(line) == line.kind = "object"

\* C7: a line that does not parse as a JSON object (not JSON, empty, or JSON
\* that is no object) is skipped and the load goes on: load_results never
\* raises, and it returns only after the last line of the file.
C7_MalformedLinesSkipped ==
    /\ apc \in {"load_results", "loaded"}
    /\ apc = "loaded" => line_num = Len(log)

\* C8: when load_results has ended, it has returned a dict, and that dict is
\* the one it returns for the log with every line that is no JSON object removed.
C8_MalformedLinesIsolated ==
    apc \in {"loaded", "TypeError"} =>
        [status |-> apc, metrics |-> metrics]
            = load_results(EmptyObj, SelectSeq(log, IsObjectLine))

\* The value a record reports for a counter (a missing one counts as 0).
Reported(line, counter) ==
    Get(Get(line.obj.metrics, "counters", EmptyObj), counter, 0)

\* The positions of the log's records of configuration k.
RecordsOf(k) ==
    {i \in 1..Len(log) : IsObjectLine(log[i]) /\ KeyOf(log[i].obj) = k}

SetMax(S) == CHOOSE x \in S : \A y \in S : y <= x

\* C9: after load_results has ingested the log, whatever the order of its
\* records, each configuration's reconnects, errors and message_count are the
\* maximum reported by the records of that configuration; and no ingested line
\* ever lowers one of them.
C9_WatermarkCounters ==
    /\ [](apc = "loaded" =>
            /\ DOMAIN metrics = {KeyOf(log[i].obj) : i \in {j \in 1..Len(log) : IsObjectLine(log[j])}}
            /\ \A k \in DOMAIN metrics :
                  /\ metrics[k].reconnects = SetMax({Reported(log[i], "reconnects") : i \in RecordsOf(k)})
                  /\ metrics[k].errors = SetMax({Reported(log[i], "errors") : i \in RecordsOf(k)})
                  /\ metrics[k].message_count = SetMax({Reported(log[i], "messages") : i \in RecordsOf(k)}))
    /\ [][\A k \in DOMAIN metrics :
            /\ k \in DOMAIN metrics'
            /\ metrics'[k].reconnects >= metrics[k].reconnects
            /\ metrics'[k].errors >= metrics[k].errors
            /\ metrics'[k].message_count >= metrics[k].message_count]_vars

\* C9 witness: a configuration's last record reports fewer reconnects and
\* messages but more errors than an earlier one, and the load has returned.
C9_Witness ==
    /\ apc = "loaded" /\ Len(log) >= 2
    /\ IsObjectLine(log[Len(log)])
    /\ LET k == KeyOf(log[Len(log)].obj) IN
          /\ Reported(log[Len(log)], "reconnects") < metrics[k].reconnects
          /\ Reported(log[Len(log)], "messages") < metrics[k].message_count
          /\ Reported(log[Len(log)], "errors") = metrics[k].errors
          /\ metrics[k].errors > 0

\* The four sample sequences of a ConfigMetrics.
Samples(m) == <<m.p50_samples, m.p99_samples, m.p999_samples, m.cv_samples>>

\* C10: ingesting a well-formed record appends one value to each of the four
\* sample sequences of its key exactly when aggregate.count > 0 and otherwise
\* leaves them as they are; it merges the three counters by maximum in both
\* cases, and changes nothing of any other key.
C10_SamplesIffCountPositive ==
    [][(apc = "load_results" /\ line_num' = line_num + 1 /\ IsObjectLine(log[line_num + 1])) =>
        LET record == log[line_num + 1].obj
            k == KeyOf(record)
            old == IF k \in DOMAIN metrics THEN metrics[k]
                   ELSE ConfigMetrics(record.region, record.instance_family)
            new == metrics'[k]
            agg == Get(record.metrics, "aggregate", EmptyObj)
        IN /\ DOMAIN metrics' = DOMAIN metrics \cup {k}
           /\ \A j \in DOMAIN metrics \ {k} : metrics'[j] = metrics[j]
           /\ IF Get(agg, "count", 0) > 0
              THEN Samples(new) =
                       <<Append(old.p50_samples, Get(agg, "p50_us", 0)),
                         Append(old.p99_samples, Get(agg, "p99_us", 0)),
                         Append(old.p999_samples, Get(agg, "p999_us", 0)),
                         Append(old.cv_samples, Get(agg, "cv", 0))>>
              ELSE Samples(new) = Samples(old)
           /\ new.reconnects = Max(old.reconnects, Reported(log[line_num + 1], "reconnects"))
           /\ new.errors = Max(old.errors, Reported(log[line_num + 1], "errors"))
           /\ new.message_count = Max(old.message_count, Reported(log[line_num + 1], "messages"))]_vars

\* C10 witness: a configuration has one sample from a record with count > 0 and
\* reconnects 2 from a record with count = 0 that followed it.
C10_Witness ==
    /\ apc = "loaded" /\ Len(log) >= 2
    /\ IsObjectLine(log[Len(log)])
    /\ Get(Get(log[Len(log)].obj.metrics, "aggregate", EmptyObj), "count", 0) = 0
    /\ LET m == metrics[KeyOf(log[Len(log)].obj)] IN
          /\ m.p99_samples = <<10000>> /\ m.cv_samples = <<5>>
          /\ m.reconnects = 2

\* The positions of analyze at which `scored` holds the entries of every
\* configuration, and those at which it has been sorted into the ranking.
RankedPcs ==
    {"print_ranking", "print_comparison", "print_recommendation", "export_json",
     "done", "KeyError", "ZeroDivisionError"}

ScoredPcs == RankedPcs \cup {"sort"}

NoSamples(s) == s.metrics.p99_samples = <<>>

\* C11: a configuration with zero p99 samples fails the hard constraints with
\* the single reason 'no data collected' and has score +infinity, and in the
\* ranking it comes after every configuration that has samples, whether that
\* configuration passes or fails.
C11_NoSamplesRankLast ==
    /\ apc \in ScoredPcs =>
           \A i \in 1..Len(scored) :
               NoSamples(scored[i]) =>
                   /\ ~scored[i].passes_constraints
                   /\ scored[i].violations = <<"no data collected">>
                   /\ scored[i].score.inf
    /\ apc \in RankedPcs =>
           \A i, j \in 1..Len(scored) :
               NoSamples(scored[i]) /\ ~NoSamples(scored[j]) => j < i

\* C11 witness: the ranking holds a configuration without samples that was
\* loaded first, a passing and a failing configuration with samples.
C11_Witness ==
    /\ apc \in RankedPcs
    /\ metrics[key_order[1]].p99_samples = <<>>
    /\ \E j, k \in 1..Len(scored) :
           /\ ~NoSamples(scored[j]) /\ scored[j].passes_constraints
           /\ ~NoSamples(scored[k]) /\ ~scored[k].passes_constraints

\* C12: in the ranking every passing configuration comes before every failing
\* one, and within the passing group and within the failing group the scores
\* never decrease.
C12_RankingOrder ==
    apc \in RankedPcs =>
        \A i, j \in 1..Len(scored) :
            i < j =>
                /\ ~(~scored[i].passes_constraints /\ scored[j].passes_constraints)
                /\ scored[i].passes_constraints = scored[j].passes_constraints
                       => ~ScoreLess(scored[j].score, scored[i].score)

\* C12 witness: two passing configurations with different scores are ranked
\* before a failing one whose score is lower than that of the second.
C12_Witness ==
    /\ apc \in RankedPcs
    /\ Len(scored) = 3
    /\ scored[1].passes_constraints /\ scored[2].passes_constraints
    /\ ~scored[3].passes_constraints
    /\ ScoreLess(scored[1].score, scored[2].score)
    /\ ScoreLess(scored[3].score, scored[2].score)

\* The rank of the first passing entry of the ranking, 0 when none passes.
FirstPassing ==
    LET P == {i \in 1..Len(scored) : scored[i].passes_constraints}
    IN IF P = {} THEN 0 ELSE CHOOSE i \in P : \A j \in P : i <= j

\* C13: a configuration whose reconnect watermark is above 1 fails the hard
\* constraints whatever its latency and score, and is never the recommendation,
\* printed or exported; a recommendation that is printed or exported is the
\* first passing entry of the ranking, and none is named exactly when no
\* configuration passes.
C13_FlappingNeverRecommended ==
    /\ apc \in ScoredPcs =>
           \A i \in 1..Len(scored) :
               scored[i].metrics.reconnects > 1 => ~scored[i].passes_constraints
    /\ recommendation.kind = "recommended" =>
           /\ FirstPassing > 0
           /\ recommendation.config = ConfigOf(scored[FirstPassing])
           /\ metrics[recommendation.config].reconnects <= 1
    /\ recommendation.kind = "no viable configuration" => FirstPassing = 0
    /\ exported.kind = "exported" =>
           IF FirstPassing = 0 THEN exported.recommendation = <<>>
           ELSE /\ exported.recommendation = ConfigOf(scored[FirstPassing])
                /\ metrics[exported.recommendation].reconnects <= 1

\* C13 witness: the configuration with two reconnects has the strictly lowest
\* score of all, and another configuration is recommended and exported.
C13_Witness ==
    /\ recommendation.kind = "recommended"
    /\ exported.kind = "exported"
    /\ \E i \in 1..Len(scored) :
           /\ scored[i].metrics.reconnects = 2
           /\ \A j \in 1..Len(scored) :
                  j # i => ScoreLess(scored[i].score, scored[j].score)

\* C14: whenever at least one configuration is loaded, analyze prints the
\* ranking entry of every configuration and reaches the recommendation without
\* aborting, also with configurations without samples, with failing
\* configurations and with a passing configuration whose median p99 is 0.
C14_ReportAlwaysProduced ==
    /\ apc \notin {"KeyError", "ZeroDivisionError"}
    /\ apc = "done" =>
           /\ ranking_printed = Len(key_order)
           /\ recommendation.kind # "not printed"

\* C15: a log without any parseable record (empty, or every line malformed)
\* ends in the 'no data' outcome, the message with exit status 1, and no
\* ranking, comparison or recommendation is printed.
C15_NoDataOutcome ==
    (\A i \in 1..Len(log) : ~IsObjectLine(log[i])) =>
        /\ apc \in {"load_results", "loaded", "no data"}
        /\ apc = "no data" <=> analyze_exit = 1
        /\ ranking_printed = 0
        /\ comparison.kind = "not called"
        /\ recommendation.kind = "not printed"

\* C16: when statistical_comparison is given two configurations with samples
\* of which either has fewer than 5 p99 values, its result is the
\* insufficient-samples error, a dict with the key "error" only (no p-value,
\* no confidence interval); a p-value is returned only when both have >= 5.
C16_InsufficientSamples ==
    comparison.kind # "not called" =>
        LET n1 == Len(metrics[comparison.of[1]].p99_samples)
            n2 == Len(metrics[comparison.of[2]].p99_samples)
        IN /\ n1 > 0 /\ n2 > 0
           /\ n1 < 5 \/ n2 < 5 =>
                  /\ comparison.kind = "error"
                  /\ comparison.error = "insufficient samples for statistical comparison"
                  /\ comparison.keys = {"error"}
           /\ "mann_whitney_p" \in comparison.keys => n1 >= 5 /\ n2 >= 5

\* C16 witness: two passing configurations with exactly 4 p99 samples each
\* were compared.
C16_Witness ==
    /\ comparison.kind = "error"
    /\ Len(metrics[comparison.of[1]].p99_samples) = 4
    /\ Len(metrics[comparison.of[2]].p99_samples) = 4

\* Scenario A: the log holds exactly the configurations X and Y.
IsX(m) ==
    /\ m.p99_samples = <<10000, 12000, 11000>>
    /\ m.p999_samples = <<15000, 16000, 15500>>
    /\ m.cv_samples = <<5, 6, 5>>
    /\ m.reconnects = 0

IsY(m) ==
    /\ m.p99_samples = <<40000, 42000, 41000>>
    /\ m.p999_samples = <<60000, 61000, 60000>>
    /\ m.reconnects = 0

ScenarioA ==
    /\ Len(key_order) = 2
    /\ \E x, y \in DOMAIN metrics : IsX(metrics[x]) /\ IsY(metrics[y])

\* The ranking entry of X, of Y.
EntryX == scored[CHOOSE i \in 1..Len(scored) : IsX(scored[i].metrics)]

EntryY == scored[CHOOSE i \in 1..Len(scored) : IsY(scored[i].metrics)]

\* C17 as stated: in scenario A, X passes, Y fails on the p999/p99 ratio
\* constraint, and X is the only passing configuration and the recommendation.
C17_ScenarioA_YFailsOnRatio ==
    ScenarioA /\ apc \in RankedPcs =>
        /\ EntryX.passes_constraints
        /\ ~EntryY.passes_constraints
        /\ EntryY.violations = <<"p999/p99 ratio > 3.0 limit">>
        /\ Len(passing(scored)) = 1
        /\ recommendation.kind # "not printed" =>
               recommendation.config = ConfigOf(EntryX)

\* C17 amended: in scenario A the ratio of Y's medians is 60000 / 41000, below
\* 3, so X and Y both pass with no violation; X is ranked first and is the
\* recommendation, Y is the runner-up, and the comparison of the two, with 3
\* samples each, is the insufficient-samples error.
C17_ScenarioA_BothPass ==
    ScenarioA /\ apc \in RankedPcs =>
        /\ EntryX.passes_constraints /\ EntryX.violations = <<>>
        /\ EntryY.passes_constraints /\ EntryY.violations = <<>>
        /\ scored[1] = EntryX /\ scored[2] = EntryY
        /\ ScoreLess(EntryX.score, EntryY.score)
        /\ comparison.kind # "not called" =>
               comparison.error = "insufficient samples for statistical comparison"
        /\ recommendation.kind # "not printed" =>
               /\ recommendation.kind = "recommended"
               /\ recommendation.config = ConfigOf(EntryX)
               /\ recommendation.runner_up = ConfigOf(EntryY)
        /\ exported.kind = "exported" =>
               exported.recommendation = ConfigOf(EntryX)

\* C17 witness: scenario A with Y loaded before X and Y's cv below X's has
\* been analysed to the end, export included.
C17_Witness ==
    /\ ScenarioA
    /\ IsY(metrics[key_order[1]])
    /\ metrics[key_order[1]].cv_samples = <<2, 2, 2>>
    /\ apc = "done" /\ exported.kind = "exported"
    /\ recommendation.kind = "recommended"

\* The doubled medians of the configurations of the log that have samples.
P99MediansWithData ==
    {Median2(metrics[k].p99_samples) : k \in {c \in DOMAIN metrics : metrics[c].p99_samples # <<>>}}

CvMediansWithData ==
    {Median2(metrics[k].cv_samples) : k \in {c \in DOMAIN metrics : metrics[c].cv_samples # <<>>}}

SetMin(S) == CHOOSE x \in S : \A y \in S : x <= y

InUnitInterval(f) == f.den > 0 /\ 0 <= f.num /\ f.num <= f.den

\* C18: for every configuration with at least one p99 sample compute_score
\* gives a normalized p99, a normalized cv and a score in [0, 1]; the
\* normalized p99 is (p99 - lo) / (hi - lo) and the normalized cv is cv / top,
\* where lo, hi and top are the least and greatest median p99 and the greatest
\* median cv of all configurations with data, failing ones included (0 when
\* hi = lo, when top = 0).
C18_NormalizedInUnitInterval ==
    apc \in ScoredPcs =>
        \A i \in 1..Len(scored) :
            ~NoSamples(scored[i]) =>
                LET d == scored[i].details
                    lo == SetMin(P99MediansWithData)
                    hi == SetMax(P99MediansWithData)
                    top == SetMax(CvMediansWithData)
                    p99 == Median2(scored[i].metrics.p99_samples)
                    cv == Median2(scored[i].metrics.cv_samples)
                IN /\ "normalized_p99" \in DOMAIN d
                   /\ InUnitInterval(d.normalized_p99)
                   /\ InUnitInterval(d.normalized_cv)
                   /\ ~scored[i].score.inf /\ InUnitInterval(scored[i].score)
                   /\ d.normalized_p99 =
                          IF hi > lo THEN Fraction(p99 - lo, hi - lo) ELSE Fraction(0, 1)
                   /\ d.normalized_cv =
                          IF top > 0 THEN Fraction(cv, top) ELSE Fraction(0, 1)

\* C18 witness: a failing configuration holds the greatest median p99
\* (normalized p99 = 1) and a passing one lies strictly between the bounds.
C18_Witness ==
    /\ apc \in ScoredPcs
    /\ \E i, j \in 1..Len(scored) :
           /\ ~NoSamples(scored[i]) /\ ~scored[i].passes_constraints
           /\ scored[i].details.normalized_p99.den > 1
           /\ scored[i].details.normalized_p99.num = scored[i].details.normalized_p99.den
           /\ ~NoSamples(scored[j]) /\ scored[j].passes_constraints
           /\ 0 < scored[j].details.normalized_p99.num
           /\ scored[j].details.normalized_p99.num < scored[j].details.normalized_p99.den

ViolatesP99(s) ==
    \E v \in 1..Len(s.violations) : s.violations[v] = "p99 > 50ms limit"

C21_NoReadyAfterTimeout ==
    (pc = "gate_returned" /\ ready = "True") => now - gate_start < timeout_sec

\* C22: in a completed sweep the probes count as all healthy exactly when
\* every one of them answered with a 2xx status; 204 is as good as 200.
C22_Any2xxIsHealthy ==
    pc = "gate_if" =>
        (all_healthy <=> \A i \in 1..Len(sweep) : sweep[i] \in SuccessStatuses)

\* C23: run_collection returns the path of the log together with the number
\* of records it wrote, and that number is the number of lines this run
\* appended to the log.
C23_ReturnsPathAndCount ==
    pc = "collection_returned" =>
        /\ Len(returned) = 2
        /\ returned[1] = ResultsFile
        /\ returned[2] = Len(file) - Len(file0)

\* C24: read in line order, the elapsed_sec of the records of the log file
\* never decreases, the records a prior partial run left in the file included.
C24_ElapsedMonotonic ==
    \A i, j \in 1..Len(file) :
        (i < j /\ IsObjectLine(file[i]) /\ IsObjectLine(file[j]))
            => file[i].obj.elapsed_sec <= file[j].obj.elapsed_sec

\* C27: every record is on disk, written and flushed, before the next fetch
\* begins: between any two steps of run_collection the buffer is empty and the
\* file holds the lines it had at the start followed by one line per record
\* written, so a crash at any point loses nothing that was recorded.
C27_FlushedBeforeNextFetch ==
    pc \in CollectPcs =>
        /\ buffer = <<>>
        /\ Len(file) = Len(file0) + collection_count
        /\ SubSeq(file, 1, Len(file0)) = file0
        /\ \A i \in Len(file0) + 1..Len(file) :
               IsObjectLine(file[i]) /\ file[i].obj.elapsed_sec <= elapsed

\* C27 witness: in the middle of a round of two probes the record of the first
\* probe of that round is already the last line of the file.
C27_Witness ==
    /\ pc = "collect_for" /\ ci = 2
    /\ Len(file) > Len(file0)
    /\ file[Len(file)].obj.instance_id = 1
    /\ file[Len(file)].obj.elapsed_sec = elapsed
    /\ elapsed > 0

ViolatesRatio(s) ==
    \E v \in 1..Len(s.violations) : s.violations[v] = "p999/p99 ratio > 3.0 limit"

SampledSoFar(k) ==
    {i \in RecordsOf(k) :
        /\ i <= line_num
        /\ Get(Get(log[i].obj.metrics, "aggregate", EmptyObj), "count", 0) > 0}

\* C28: in every state of the load, the p50, p99, p999 and cv sample sequences
\* of each configuration have one and the same length, the number of records
\* with count > 0 ingested so far for its key; so a configuration with a p99
\* sample has a cv sample, and compute_score never answers 'insufficient data'.
C28_SampleSequencesSameLength ==
    /\ \A k \in DOMAIN metrics :
           \A q \in 1..4 : Len(Samples(metrics[k])[q]) = Cardinality(SampledSoFar(k))
    /\ \A i \in 1..Len(scored) :
           /\ scored[i].metrics.p99_samples # <<>> => scored[i].metrics.cv_samples # <<>>
           /\ "error" \in DOMAIN scored[i].details
                  => /\ scored[i].details.error = "no samples"
                     /\ scored[i].metrics.p99_samples = <<>>

\* C28 witness: a configuration with three records, one of them with count = 0,
\* has two samples in each sequence and was scored with full details.
C28_Witness ==
    /\ apc \in ScoredPcs
    /\ \E i \in 1..Len(scored) :
           /\ Len(scored[i].metrics.p99_samples) = 2
           /\ Len(scored[i].metrics.cv_samples) = 2
           /\ Cardinality(RecordsOf(ConfigOf(scored[i]))) = 3
           /\ "normalized_cv" \in DOMAIN scored[i].details

\* The ranks of the passing entries of the ranking.
PassingRanks == {i \in 1..Len(scored) : scored[i].passes_constraints}

\* C29: statistical_comparison is called only when at least two
\* configurations pass, on the first two passing entries of the ranking in
\* rank order, both of which have p99 samples, so the result is never None;
\* once print_comparison has run with two passing entries it has been called,
\* and its result is not replaced afterwards (it is called once).
C29_ComparisonOnTopTwoPassing ==
    /\ [](comparison.kind # "not called" =>
            /\ Cardinality(PassingRanks) >= 2
            /\ \E a, b \in PassingRanks :
                   /\ a < b
                   /\ \A c \in PassingRanks \ {a, b} : b < c
                   /\ comparison.of = <<ConfigOf(scored[a]), ConfigOf(scored[b])>>
                   /\ scored[a].metrics.p99_samples # <<>>
                   /\ scored[b].metrics.p99_samples # <<>>
            /\ comparison.kind # "None")
    /\ []((apc \in {"print_recommendation", "export_json", "done", "ZeroDivisionError"}
             /\ Cardinality(PassingRanks) >= 2) => comparison.kind # "not called")
    /\ [][comparison.kind # "not called" => comparison' = comparison]_vars

\* C29 witness: of three configurations the one loaded first fails, and the
\* comparison was made on the two that pass.
C29_Witness ==
    /\ comparison.kind # "not called"
    /\ Len(scored) = 3
    /\ ~scored[3].passes_constraints
    /\ ConfigOf(scored[3]) = key_order[1]
    /\ scored[3].metrics.p99_samples # <<>>
    /\ ScoreLess(scored[3].score, scored[1].score)

\* The positions of main inside the collect phase.
CollectPhasePcs == {"wait_for_probes", "run_collection"} \cup GatePcs \cup CollectPcs

\* C30: the phases of one invocation run in the order deploy, collect,
\* destroy: terraform is called as init, apply, destroy in that order, the
\* collect phase runs after the requested deploy and before any destroy, and
\* when collect is requested, destroy runs only after run_collection has
\* returned; a collect phase that fails before collection (no endpoint, gate
\* not ready) ends the invocation with status 1 and without destroy.
C30_PhaseOrder ==
    /\ tf_calls \in {<<>>, <<"init">>, <<"init", "apply">>, <<"destroy">>,
                     <<"init", "apply", "destroy">>}
    /\ pc \in CollectPhasePcs =>
           /\ args.collect
           /\ probes # <<>>
           /\ tf_calls = IF args.deploy THEN <<"init", "apply">> ELSE <<>>
    /\ (tf_calls # <<>> /\ tf_calls[Len(tf_calls)] = "destroy") =>
           /\ args.destroy
           /\ args.deploy <=> Len(tf_calls) = 3
           /\ args.collect => (ready = "True" /\ returned # <<>>)
    /\ (pc = "exit" /\ args.collect /\ (ready = "False" \/ (ready = "none" /\ exit_code = 1))) =>
           /\ exit_code = 1
           /\ returned = <<>> /\ ~warmup_slept
           /\ tf_calls \in {<<>>, <<"init", "apply">>}

\* C30 witness: deploy, collect and destroy were requested together, the
\* deploy ran, the gate was not ready, and the invocation ended with status 1.
C30_Witness ==
    /\ pc = "exit" /\ exit_code = 1
    /\ args.deploy /\ args.collect /\ args.destroy
    /\ ready = "False"
    /\ tf_calls = <<"init", "apply">>

\* C26: both deadline-governed loops terminate: wait_for_probes, once
\* called, returns ready or not ready, and run_collection, once called,
\* returns, whatever the probes answer and however long (up to the per-call
\* timeout) they take.
C26_LoopsTerminate ==
    /\ (pc = "wait_for_probes") ~> (pc = "gate_returned" /\ ready \in {"True", "False"})
    /\ (pc = "run_collection") ~> (pc = "collection_returned" /\ returned # <<>>)

\* C26 witness: the gate gave up after a sweep with a failing probe and a
\* sleep, all health requests having taken the full per-call time.
C26_Witness ==
    /\ pc = "gate_returned" /\ ready = "False"
    /\ Len(probes) = 2
    /\ now - gate_start = GateSleepSec + 2

====
